---- MODULE Spec2Model ----
(***************************************************************************)
(* Model of the build cache of sphinx-ultra (src/src/cache.rs).            *)
(*                                                                         *)
(* Units.  Times are milliseconds since the epoch (chrono DateTime<Utc>    *)
(* and SystemTime both carry sub-second precision; the code truncates to   *)
(* whole seconds where the model divides by MsPerSec).  Sizes are bytes.   *)
(* The code compares sizes as f64 megabytes; every value involved is an    *)
(* integer number of bytes divided by 2^20, which f64 represents exactly,  *)
(* so the comparisons are modelled on the byte counts.                     *)
(***************************************************************************)
EXTENDS Integers, Sequences, FiniteSets, TLC

\* ------------------------------------------------------------------ bounds

\* Number of BuildCache calls (and of environment steps) in one behaviour of
\* the sequential specification.
MaxCalls == 3
MaxEnv == 2
\* Length of a behaviour (calls and environment steps together).
MaxSteps == 4
\* How often the clock advances by a day, and by half a second.
MaxDays == 2
MaxSubSec == 1
\* Number of store_document calls the workers make between them in the
\* concurrent specification.
MaxConcCalls == 3
\* Number of calls (lookups, stores and hit_ratio) in the specification of
\* the counters.
MaxRatioCalls == 4
\* Lines in a toctree.
MaxTocLines == 2
\* Runs of the build command, one after the other.
MaxBuilds == 2
\* Modification times of a file version, in half seconds before and after
\* the epoch.
MaxHashTicks == 3

\* ------------------------------------------------------- program constants

MaxSizeMb == 500
ExpirationSecs == 86400
Overhead == 1024
InitialAccessCount == 1

BytesPerMb == 1048576
MsPerSec == 1000
DayMs == ExpirationSecs * MsPerSec
SubSecMs == 500

\* --------------------------------------------------------------- universe

\* Source paths.  PathRaw is a path whose bytes are not valid UTF-8 (legal
\* on Unix); PathU is the path its lossy conversion yields (the invalid
\* bytes replaced by U+FFFD), itself a valid path.
PathA == "a.rst"
PathU == "u\\uFFFD.rst"
PathRaw == "u\\xFF.rst"
Paths == {PathA, PathU, PathRaw}

Workers == {"w1", "w2"}
Main == "w1"

\* File contents.
Contents == {"c1", "c2"}

\* Sum of the text lengths of a document (html, title, both paths), chosen
\* so that the size estimates are 200 MiB and 501 MiB.
TextLens == {200 * BytesPerMb - Overhead, 501 * BytesPerMb - Overhead}

Docs == [source_path : Paths, text_len : TextLens]
NoDoc == [source_path |-> "", text_len |-> 0]

NoFile == [exists |-> FALSE, content |-> "", mtime |-> 0]

\* ----------------------------------------------------------- pure helpers

\* OsStr::to_string_lossy
to_string_lossy(p) == IF p = PathRaw THEN PathU ELSE p

\* The name of the persisted file of a path: a hash of the lossy string of
\* the path, identified here with that string (blake3 taken as injective).
get_cache_file_path(p) == to_string_lossy(p)

CacheFileNames == {get_cache_file_path(p) : p \in Paths}

\* DashMap shard of a key.  Two of the paths share a shard.
ShardOf(p) == IF p = PathA THEN 0 ELSE 1
Shards == {ShardOf(p) : p \in Paths}

\* The fingerprint as it would be over the content bytes alone.
fingerprint_of_content(f) == <<f.content>>

\* The fingerprint: the hash of the content bytes followed by the 8 bytes
\* of the modification time in whole seconds (an injective encoding of the
\* pair; blake3 taken as collision free).  A modification time before the
\* epoch has no duration_since(UNIX_EPOCH) and is left out of the hash.
Fingerprint(f) ==
    IF f.mtime >= 0 THEN <<f.content, f.mtime \div MsPerSec>> ELSE <<f.content>>

calculate_file_hash(fs, p) ==
    IF fs[p].exists
    THEN [ok |-> TRUE, hash |-> Fingerprint(fs[p])]
    ELSE [ok |-> FALSE, hash |-> <<"", 0>>]

is_expired(cached_at, t) == ((t - cached_at) \div MsPerSec) > ExpirationSecs

estimate_document_size(d) == d.text_len + Overhead

RECURSIVE SumSizes(_, _)
SumSizes(docs, keys) ==
    IF keys = {} THEN 0
    ELSE LET k == CHOOSE x \in keys : TRUE
         IN docs[k].size_bytes + SumSizes(docs, keys \ {k})

\* size_mb, in bytes
size_bytes_total(docs) == SumSizes(docs, DOMAIN docs)

MapRemove(m, k) == [q \in (DOMAIN m) \ {k} |-> m[q]]
MapRemoveAll(m, ks) == [q \in (DOMAIN m) \ ks |-> m[q]]
MapPut(m, k, v) == [q \in (DOMAIN m) \cup {k} |-> IF q = k THEN v ELSE m[q]]
EmptyMap == [q \in {} |-> NoDoc]

\* All sequences enumerating the set S once: the orders in which an
\* iteration over a hash map (or a directory) may visit it.
Orders(S) ==
    {s \in [1..Cardinality(S) -> S] : \A i, j \in 1..Cardinality(S) : i # j => s[i] # s[j]}

\* Vec::sort_by_key, a stable sort, on the access count.
RECURSIVE InsertStable(_, _, _)
InsertStable(docs, sorted, x) ==
    IF sorted = <<>> THEN <<x>>
    ELSE IF docs[sorted[Len(sorted)]].access_count <= docs[x].access_count
         THEN Append(sorted, x)
         ELSE Append(InsertStable(docs, SubSeq(sorted, 1, Len(sorted) - 1), x),
                     sorted[Len(sorted)])

RECURSIVE SortByAccessCount(_, _)
SortByAccessCount(docs, order) ==
    IF order = <<>> THEN <<>>
    ELSE InsertStable(docs,
                      SortByAccessCount(docs, SubSeq(order, 1, Len(order) - 1)),
                      order[Len(order)])

\* The loop of evict_lru_entries: the paths removed, walking the sorted
\* entries until the space freed reaches the space needed.
RECURSIVE EvictLoop(_, _, _, _, _)
EvictLoop(docs, sorted, i, freed, needed) ==
    IF i > Len(sorted) \/ freed >= needed THEN <<>>
    ELSE <<sorted[i]>> \o
         EvictLoop(docs, sorted, i + 1, freed + docs[sorted[i]].size_bytes, needed)

evict_lru_entries(docs, order, needed) ==
    EvictLoop(docs, SortByAccessCount(docs, order), 1, 0, needed)

SeqRange(s) == {s[i] : i \in 1..Len(s)}

\* max_size_mb, in bytes
Budget == MaxSizeMb * BytesPerMb

\* evict_if_needed: the paths to evict before an entry of new_size is put in.
evict_if_needed(docs, order, new_size) ==
    IF size_bytes_total(docs) + new_size > Budget
    THEN evict_lru_entries(docs, order, new_size)
    ELSE <<>>

\* documents.get as it would be if the Ref were dropped at once (the value
\* cloned out of the map): no guard is kept.
get_guard_dropped(rl, w, s) == rl

\* DashMap: a Ref returned by get holds a read guard on the shard of the
\* key until it is dropped; insert, remove, alter and clear need the write
\* lock of the shard, which is free only when nobody holds a read guard.
get_guard(rl, w, s) == [rl EXCEPT ![s] = @ \cup {w}]
drop_guard(rl, w, s) == [rl EXCEPT ![s] = @ \ {w}]
WriteLockFree(rl, s) == rl[s] = {}

NewEntry(d, h, t) ==
    [document |-> d, hash |-> h, cached_at |-> t,
     access_count |-> InitialAccessCount, size_bytes |-> estimate_document_size(d)]

\* serde_json::to_string_pretty of a CachedDocument: the source path is
\* written through to_string_lossy (document.rs serialize_pathbuf); every
\* other field is written exactly.
Serialize(e) == [e EXCEPT !.document.source_path = to_string_lossy(@)]

\* A persisted file written by persist_to_disk for path p.  stored_as
\* records the path of the call that wrote it; it is not part of the file.
Persisted(p, e) == [kind |-> "json", entry |-> Serialize(e), stored_as |-> p]

CorruptFile == [kind |-> "corrupt"]
PartialFile == [kind |-> "partial"]

\* load_cache_file: the map after reading one persisted file, and whether
\* the call returned an error.
load_cache_file(docs, content, fs, t) ==
    IF content.kind # "json" THEN [err |-> TRUE, docs |-> docs]
    ELSE LET cached_doc == content.entry
             source_path == cached_doc.document.source_path
         IN IF is_expired(cached_doc.cached_at, t) THEN [err |-> FALSE, docs |-> docs]
            ELSE IF ~fs[source_path].exists THEN [err |-> FALSE, docs |-> docs]
            ELSE IF calculate_file_hash(fs, source_path).hash = cached_doc.hash
                 THEN [err |-> FALSE, docs |-> MapPut(docs, source_path, cached_doc)]
                 ELSE [err |-> FALSE, docs |-> docs]

\* load_from_disk: every file of the cache directory, in directory order; a
\* file that fails to load is logged and skipped.
RECURSIVE LoadLoop(_, _, _, _, _, _)
LoadLoop(docs, dsk, order, i, fs, t) ==
    IF i > Len(order) THEN [err |-> FALSE, docs |-> docs]
    ELSE LET r == load_cache_file(docs, dsk[order[i]], fs, t)
         IN LoadLoop(r.docs, dsk, order, i + 1, fs, t)

\* load_from_disk as it would be with the error of load_cache_file
\* propagated (load_cache_file(..)? in place of the if-let-Err).
RECURSIVE LoadLoopFatal(_, _, _, _, _, _)
LoadLoopFatal(docs, dsk, order, i, fs, t) ==
    IF i > Len(order) THEN [err |-> FALSE, docs |-> docs]
    ELSE LET r == load_cache_file(docs, dsk[order[i]], fs, t)
         IN IF r.err THEN [err |-> TRUE, docs |-> EmptyMap]
            ELSE LoadLoopFatal(r.docs, dsk, order, i + 1, fs, t)

load_from_disk_fatal(dsk, order, fs, t) == LoadLoopFatal(EmptyMap, dsk, order, 1, fs, t)

load_from_disk(dsk, order, fs, t) == LoadLoop(EmptyMap, dsk, order, 1, fs, t)

\* ------------------------------------------------------------------ state

VARIABLES
    files,        \* the source tree: path -> [exists, content, mtime]
    now,          \* the clock
    disk,         \* the cache directory: file name -> persisted content
    documents,    \* BuildCache.documents
    file_hashes,  \* BuildCache.file_hashes
    hit_count,    \* BuildCache.hit_count
    miss_count,   \* BuildCache.miss_count
    rlocks,       \* shard -> the workers holding a read guard on it
    pc,           \* worker -> where it is
    loc,          \* worker -> the locals of its call
    last,         \* the most recent call and what it found and returned
    last_insert,  \* path -> the document of the latest insertion that no
                  \* eviction has removed since (concurrent specification)
    ncalls,       \* calls made so far
    nenv,         \* environment steps so far
    evict_log,    \* what the latest evicting store_document found and removed
    config,       \* BuildConfig and the flags of the command line
    tree,         \* the files under the source root, for discovery
    stage,        \* where SphinxBuilder::build is
    source_files, \* the files discovered
    job,          \* file -> how far process_single_file has come
    processed_docs, \* the documents collected by process_files_parallel
    warnings,     \* SphinxBuilder.warnings
    stats,        \* the BuildStats returned by build
    exit_code,    \* the exit code of the command, once it has exited
    outputs,      \* the rendered files in the output directory
    prior         \* what the builds before this one did

bvars == <<config, tree, stage, source_files, job, processed_docs, warnings,
           stats, exit_code, outputs, prior>>

vars == <<files, now, disk, documents, file_hashes, hit_count, miss_count,
          rlocks, pc, loc, last, last_insert, ncalls, nenv, evict_log, bvars>>

NoLoc == [path |-> "", doc |-> NoDoc, hash |-> <<"", 0>>, evict |-> <<>>,
          content |-> CorruptFile, hits |-> 0, seen |-> {}]

NoCall == [op |-> "none", path |-> "", doc |-> NoDoc, ret |-> "",
           hit0 |-> 0, miss0 |-> 0,
           present |-> FALSE, match |-> FALSE, expired |-> FALSE,
           prev_op |-> "none", prev_path |-> "", prev_doc |-> NoDoc, prev_ret |-> "",
           hits |-> 0, misses |-> 0, seen |-> {}, ratio |-> [num |-> 0, den |-> 1],
           ret_docs |-> 0, ret_misses |-> 0, raced |-> FALSE]

Call(op, p, d, ret) ==
    [NoCall EXCEPT !.op = op, !.path = p, !.doc = d, !.ret = ret,
                   !.hit0 = hit_count, !.miss0 = miss_count,
                   !.prev_op = last.op, !.prev_path = last.path,
                   !.prev_doc = last.doc, !.prev_ret = last.ret,
                   !.ret_docs = last.ret_docs, !.ret_misses = last.ret_misses,
                   !.raced = last.raced]

NoEvict == [op |-> "none", path |-> "", doc |-> NoDoc, removed |-> <<>>, before |-> EmptyMap]

\* A BuildCache just constructed, the source files and the clock.
InitCache ==
    /\ files = [p \in Paths |-> [exists |-> TRUE, content |-> "c1", mtime |-> 0]]
    /\ now = 0
    /\ documents = EmptyMap
    /\ file_hashes = [q \in {} |-> <<"", 0>>]
    /\ hit_count = 0
    /\ miss_count = 0
    /\ rlocks = [s \in Shards |-> {}]
    /\ pc = [w \in Workers |-> "idle"]
    /\ loc = [w \in Workers |-> NoLoc]
    /\ last = NoCall
    /\ last_insert = [q \in {} |-> [doc |-> NoDoc, live |-> FALSE]]
    /\ ncalls = 0
    /\ nenv = 0
    /\ evict_log = NoEvict

\* No SphinxBuilder yet.
NoStats == [files_processed |-> 0, cache_hits |-> 0, warnings |-> 0, made |-> FALSE]
\* builds: build invocations so far; parsed: the files this invocation has
\* parsed; fatal: an error has come back to main; reported: main has printed
\* the warnings; warnings0: the warnings held when validation began;
\* earlier: an earlier incremental invocation ran to Done; served: the files
\* this invocation took from the cache; edited: a source file was changed
\* since this builder's first invocation began; prev: the BuildStats of the
\* builder's invocation before this one.
NoPrior == [builds |-> 0, parsed |-> {}, fatal |-> FALSE, reported |-> FALSE,
            warnings0 |-> 0, earlier |-> FALSE,
            served |-> {}, edited |-> FALSE, prev |-> NoStats]
DefaultConfig == [incremental |-> FALSE, fail_on_warning |-> FALSE,
                  root_doc |-> <<"index">>, output_dir |-> <<"_build">>,
                  clean |-> FALSE]

InitBuilder ==
    /\ tree = {}
    /\ stage = "idle"
    /\ source_files = {}
    /\ job = [q \in {} |-> "none"]
    /\ processed_docs = {}
    /\ warnings = <<>>
    /\ stats = NoStats
    /\ exit_code = -1
    /\ outputs = {}
    /\ prior = NoPrior

\* ... over an empty cache directory.
Init ==
    /\ InitCache
    /\ disk = [k \in {} |-> CorruptFile]
    /\ config = DefaultConfig
    /\ InitBuilder

\* ------------------------------------------- the calls, one caller (Main)

Idle == pc[Main] = "idle" /\ ncalls < MaxCalls /\ ncalls + nenv < MaxSteps

\* store_document, the whole call.  order is the order in which the map
\* iterator of evict_lru_entries visits the entries; write_ok is whether
\* std::fs::write succeeds (a failure leaves the file as it was).
store_document(p, d, order, write_ok) ==
    /\ Idle
    /\ LET h == calculate_file_hash(files, p)
           size_bytes == estimate_document_size(d)
           cached_doc == NewEntry(d, h.hash, now)
           evicted == SeqRange(evict_if_needed(documents, order, size_bytes))
       IN IF ~h.ok
          THEN /\ last' = Call("store", p, d, "err_io")
               /\ UNCHANGED <<documents, file_hashes, disk>>
          ELSE /\ \A q \in evicted \cup {p} : WriteLockFree(rlocks, ShardOf(q))
               /\ documents' = MapPut(MapRemoveAll(documents, evicted), p, cached_doc)
               /\ file_hashes' = MapPut(MapRemoveAll(file_hashes, evicted), p, h.hash)
               /\ IF write_ok
                  THEN /\ disk' = MapPut(disk, get_cache_file_path(p),
                                         Persisted(p, documents'[p]))
                       /\ last' = Call("store", p, d, "ok")
                  ELSE /\ disk' = disk
                       /\ last' = Call("store", p, d, "err_io")
    /\ ncalls' = ncalls + 1
    /\ UNCHANGED <<files, now, hit_count, miss_count, rlocks, pc, loc, last_insert, nenv>>

\* store_document where the eviction it runs is not looked at.
StoreDocument(p, d, order, write_ok) ==
    /\ store_document(p, d, order, write_ok)
    /\ UNCHANGED <<evict_log, bvars>>

\* store_document, recording the entries evict_lru_entries found in the map
\* and the ones it removed, in the order of removal.
StoreDocumentEvicting(p, d, order, write_ok) ==
    /\ store_document(p, d, order, write_ok)
    /\ evict_log' = IF calculate_file_hash(files, p).ok
                    THEN [op |-> "store", path |-> p, doc |-> d,
                          removed |-> evict_if_needed(documents, order,
                                                      estimate_document_size(d)),
                          before |-> documents]
                    ELSE NoEvict
    /\ UNCHANGED bvars

\* get_document, the whole call.  The Ref returned by documents.get is
\* alive until the end of the if-let block, so alter (hit) and remove
\* (stale or expired) ask for the write lock of a shard whose read guard
\* the same call holds: the call then waits forever.
GetDocument(p) ==
    /\ Idle
    /\ ncalls' = ncalls + 1
    /\ LET h == calculate_file_hash(files, p)
           s == ShardOf(p)
       IN IF ~h.ok
          THEN /\ last' = Call("get", p, NoDoc, "err_io")
               /\ UNCHANGED <<documents, hit_count, miss_count, rlocks, pc>>
          ELSE IF p \notin DOMAIN documents
          THEN /\ miss_count' = miss_count + 1
               /\ last' = Call("get", p, NoDoc, "miss")
               /\ UNCHANGED <<documents, hit_count, rlocks, pc>>
          ELSE LET cached == documents[p]
                   held == get_guard(rlocks, Main, s)
                   fresh == cached.hash = h.hash /\ ~is_expired(cached.cached_at, now)
                   found == [Call("get", p, cached.document, "") EXCEPT
                                !.present = TRUE,
                                !.match = (cached.hash = h.hash),
                                !.expired = is_expired(cached.cached_at, now)]
               IN IF ~WriteLockFree(held, s)
                  THEN /\ rlocks' = held
                       /\ pc' = [pc EXCEPT ![Main] = "blocked"]
                       /\ last' = [found EXCEPT !.ret = "blocked"]
                       /\ UNCHANGED <<documents, hit_count, miss_count>>
                  ELSE IF fresh
                  THEN /\ documents' = [documents EXCEPT ![p].access_count = @ + 1]
                       /\ hit_count' = hit_count + 1
                       /\ last' = [found EXCEPT !.ret = "hit"]
                       /\ UNCHANGED <<miss_count, rlocks, pc>>
                  ELSE /\ documents' = MapRemove(documents, p)
                       /\ miss_count' = miss_count + 1
                       /\ last' = [found EXCEPT !.ret = "miss"]
                       /\ UNCHANGED <<hit_count, rlocks, pc>>
    /\ UNCHANGED <<files, now, disk, file_hashes, loc, last_insert, nenv>>
    /\ UNCHANGED <<evict_log, bvars>>

\* invalidate
Invalidate(p) ==
    /\ Idle
    /\ WriteLockFree(rlocks, ShardOf(p))
    /\ documents' = MapRemove(documents, p)
    /\ file_hashes' = MapRemove(file_hashes, p)
    /\ disk' = MapRemove(disk, get_cache_file_path(p))
    /\ last' = Call("invalidate", p, NoDoc, "ok")
    /\ ncalls' = ncalls + 1
    /\ UNCHANGED <<files, now, hit_count, miss_count, rlocks, pc, loc, last_insert, nenv>>
    /\ UNCHANGED <<evict_log, bvars>>

\* clear
Clear ==
    /\ Idle
    /\ \A s \in Shards : WriteLockFree(rlocks, s)
    /\ documents' = EmptyMap
    /\ file_hashes' = MapRemoveAll(file_hashes, DOMAIN file_hashes)
    /\ hit_count' = 0
    /\ miss_count' = 0
    /\ disk' = MapRemoveAll(disk, DOMAIN disk)
    /\ last' = Call("clear", "", NoDoc, "ok")
    /\ ncalls' = ncalls + 1
    /\ UNCHANGED <<files, now, rlocks, pc, loc, last_insert, nenv>>
    /\ UNCHANGED <<evict_log, bvars>>

\* BuildCache::new over the same cache directory, after the previous
\* BuildCache was dropped (or its process ended).  order is the order in
\* which read_dir lists the directory.
NewCache(order) ==
    /\ ncalls < MaxCalls /\ ncalls + nenv < MaxSteps
    /\ LET r == load_from_disk(disk, order, files, now)
       IN /\ documents' = r.docs
          /\ last' = Call("new", "", NoDoc, IF r.err THEN "err" ELSE "ok")
    /\ file_hashes' = MapRemoveAll(file_hashes, DOMAIN file_hashes)
    /\ hit_count' = 0
    /\ miss_count' = 0
    /\ rlocks' = [s \in Shards |-> {}]
    /\ pc' = [w \in Workers |-> "idle"]
    /\ ncalls' = ncalls + 1
    /\ UNCHANGED <<files, now, disk, loc, last_insert, nenv>>
    /\ UNCHANGED <<evict_log, bvars>>

\* The process dies inside std::fs::write of persist_to_disk for path p,
\* after the file was opened (and truncated) and before its content was
\* written; a new process then constructs a BuildCache over the directory.
\* (What the dying call had put in memory dies with the process.)
CrashInStore(p, dir_order) ==
    /\ Idle
    /\ calculate_file_hash(files, p).ok
    /\ disk' = MapPut(disk, get_cache_file_path(p), PartialFile)
    /\ dir_order \in Orders(DOMAIN disk')
    /\ documents' = load_from_disk(disk', dir_order, files, now).docs
    /\ file_hashes' = MapRemoveAll(file_hashes, DOMAIN file_hashes)
    /\ hit_count' = 0
    /\ miss_count' = 0
    /\ last' = Call("crash", p, NoDoc, "")
    /\ ncalls' = ncalls + 1
    /\ UNCHANGED <<files, now, rlocks, pc, loc, last_insert, nenv>>
    /\ UNCHANGED <<evict_log, bvars>>

\* --------------------------------------------------------- the environment

EnvStep ==
    /\ nenv < MaxEnv /\ ncalls + nenv < MaxSteps
    /\ nenv' = nenv + 1
    /\ last' = [NoCall EXCEPT !.op = "env", !.ret_docs = last.ret_docs,
                              !.ret_misses = last.ret_misses, !.raced = last.raced]

WriteFile(p, c) ==
    /\ EnvStep
    /\ files' = [files EXCEPT ![p] = [exists |-> TRUE, content |-> c, mtime |-> now]]
    /\ UNCHANGED <<now, disk, documents, file_hashes, hit_count, miss_count,
                   rlocks, pc, loc, last_insert, ncalls>>
    /\ UNCHANGED <<evict_log, bvars>>

DeleteFile(p) ==
    /\ EnvStep
    /\ files[p].exists
    /\ files' = [files EXCEPT ![p] = NoFile]
    /\ UNCHANGED <<now, disk, documents, file_hashes, hit_count, miss_count,
                   rlocks, pc, loc, last_insert, ncalls>>
    /\ UNCHANGED <<evict_log, bvars>>

\* A persisted file damaged from outside (a truncated copy, an edit).
CorruptCacheFile(k) ==
    /\ EnvStep
    /\ k \in DOMAIN disk
    /\ disk[k].kind = "json"
    /\ disk' = [disk EXCEPT ![k] = CorruptFile]
    /\ UNCHANGED <<files, now, documents, file_hashes, hit_count, miss_count,
                   rlocks, pc, loc, last_insert, ncalls>>
    /\ UNCHANGED <<evict_log, bvars>>

TickDay ==
    /\ EnvStep
    /\ now \div DayMs < MaxDays
    /\ now' = now + DayMs
    /\ UNCHANGED <<files, disk, documents, file_hashes, hit_count, miss_count,
                   rlocks, pc, loc, last_insert, ncalls>>
    /\ UNCHANGED <<evict_log, bvars>>

TickSubSec ==
    /\ EnvStep
    /\ (now % DayMs) \div SubSecMs < MaxSubSec
    /\ now' = now + SubSecMs
    /\ UNCHANGED <<files, disk, documents, file_hashes, hit_count, miss_count,
                   rlocks, pc, loc, last_insert, ncalls>>
    /\ UNCHANGED <<evict_log, bvars>>

Next ==
    \/ \E p \in Paths, d \in Docs, order \in Orders(DOMAIN documents), ok \in BOOLEAN :
          StoreDocument(p, d, order, ok)
    \/ \E p \in Paths : GetDocument(p)
    \/ \E p \in Paths : Invalidate(p)
    \/ Clear
    \/ \E order \in Orders(DOMAIN disk) : NewCache(order)
    \/ \E p \in Paths, names \in SUBSET CacheFileNames :
          \E dir_order \in Orders(names) : CrashInStore(p, dir_order)
    \/ \E p \in Paths, c \in Contents : WriteFile(p, c)
    \/ \E p \in Paths : DeleteFile(p)
    \/ \E k \in CacheFileNames : CorruptCacheFile(k)
    \/ TickDay
    \/ TickSubSec

Spec == Init /\ [][Next]_vars

\* ------------------------- construction over a directory left by earlier runs

\* The files earlier processes may have left under the name k: one written
\* by store_document for a path of that name, for any document.
StoredFiles(k) ==
    {Persisted(p, NewEntry(d, Fingerprint([content |-> "c1", mtime |-> 0]), 0)) :
        p \in {q \in Paths : get_cache_file_path(q) = k}, d \in Docs}

InitLoad ==
    /\ InitCache
    /\ config = DefaultConfig
    /\ InitBuilder
    /\ \E names \in SUBSET CacheFileNames :
          /\ disk \in [names -> UNION {StoredFiles(k) : k \in CacheFileNames}]
          /\ \A k \in names : disk[k] \in StoredFiles(k)

NextLoad ==
    \/ \E order \in Orders(DOMAIN disk) : NewCache(order)
    \/ \E p \in Paths, c \in Contents : WriteFile(p, c)
    \/ \E p \in Paths : DeleteFile(p)
    \/ \E k \in CacheFileNames : CorruptCacheFile(k)
    \/ TickDay

SpecLoad == InitLoad /\ [][NextLoad]_vars

\* ---------------------------------------------- stores that run evictions

NextEvict ==
    \/ \E p \in Paths, d \in Docs, order \in Orders(DOMAIN documents), ok \in BOOLEAN :
          StoreDocumentEvicting(p, d, order, ok)
    \/ \E p \in Paths : Invalidate(p)
    \/ TickSubSec

SpecEvict == Init /\ [][NextEvict]_vars

\* ------------------- evicting stores and a new BuildCache over the directory

\* The document stored for a path is the one parsed from it.
NextReload ==
    \/ \E p \in Paths, order \in Orders(DOMAIN documents), ok \in BOOLEAN :
          \E d \in {e \in Docs : e.source_path = p} :
             StoreDocumentEvicting(p, d, order, ok)
    \/ \E order \in Orders(DOMAIN disk) : NewCache(order)

SpecReload == Init /\ [][NextReload]_vars

\* --------------------------- store_document step by step, several workers

\* The documents the build hands to store_document for a path: parsed from
\* that path (parser.rs sets source_path to the file parsed).
ConcDocs(p) == {d \in Docs : d.source_path = p}

At(w, where) == pc[w] = where
Goto(w, where) == pc' = [pc EXCEPT ![w] = where]

ConcFrame == UNCHANGED <<files, now, hit_count, miss_count, last, nenv>>

\* lines 80-89: the fingerprint, the size estimate and the entry.
CStoreBegin(w, p, d) ==
    /\ At(w, "idle")
    /\ ncalls < MaxConcCalls
    /\ calculate_file_hash(files, p).ok
    /\ loc' = [loc EXCEPT ![w] = [NoLoc EXCEPT !.path = p, !.doc = d,
                                     !.hash = calculate_file_hash(files, p).hash]]
    /\ Goto(w, "evict_check")
    /\ ncalls' = ncalls + 1
    /\ UNCHANGED <<disk, documents, file_hashes, rlocks, last_insert>>
    /\ ConcFrame
    /\ UNCHANGED <<evict_log, bvars>>

\* evict_if_needed, lines 209-214: size_mb() and the comparison.
CEvictCheck(w) ==
    /\ At(w, "evict_check")
    /\ IF size_bytes_total(documents) + estimate_document_size(loc[w].doc) > Budget
       THEN Goto(w, "evict_collect")
       ELSE Goto(w, "insert")
    /\ UNCHANGED <<disk, documents, file_hashes, rlocks, loc, last_insert, ncalls>>
    /\ ConcFrame
    /\ UNCHANGED <<evict_log, bvars>>

\* evict_lru_entries, lines 220-233: the entries collected and sorted; the
\* paths the loop will remove follow from the collected sizes.
CEvictCollect(w, order) ==
    /\ At(w, "evict_collect")
    /\ loc' = [loc EXCEPT ![w].evict =
                  evict_lru_entries(documents, order, estimate_document_size(loc[w].doc))]
    /\ Goto(w, IF loc'[w].evict = <<>> THEN "insert" ELSE "evict_remove")
    /\ UNCHANGED <<disk, documents, file_hashes, rlocks, last_insert, ncalls>>
    /\ ConcFrame
    /\ UNCHANGED <<evict_log, bvars>>

\* evict_lru_entries, lines 241-242: one removal of the loop.
CEvictRemove(w) ==
    /\ At(w, "evict_remove")
    /\ LET q == Head(loc[w].evict)
       IN /\ WriteLockFree(rlocks, ShardOf(q))
          /\ documents' = MapRemove(documents, q)
          /\ file_hashes' = MapRemove(file_hashes, q)
          /\ last_insert' = IF q \in DOMAIN last_insert
                            THEN [last_insert EXCEPT ![q].live = FALSE]
                            ELSE last_insert
    /\ loc' = [loc EXCEPT ![w].evict = Tail(@)]
    /\ Goto(w, IF Tail(loc[w].evict) = <<>> THEN "insert" ELSE "evict_remove")
    /\ UNCHANGED <<disk, rlocks, ncalls>>
    /\ ConcFrame
    /\ UNCHANGED <<evict_log, bvars>>

\* line 94: documents.insert
CInsert(w) ==
    /\ At(w, "insert")
    /\ WriteLockFree(rlocks, ShardOf(loc[w].path))
    /\ documents' = MapPut(documents, loc[w].path, NewEntry(loc[w].doc, loc[w].hash, now))
    /\ last_insert' = MapPut(last_insert, loc[w].path, [doc |-> loc[w].doc, live |-> TRUE])
    /\ Goto(w, "hashes")
    /\ UNCHANGED <<disk, file_hashes, rlocks, loc, ncalls>>
    /\ ConcFrame
    /\ UNCHANGED <<evict_log, bvars>>

\* lines 95-97: file_hashes.write().insert
CHashesInsert(w) ==
    /\ At(w, "hashes")
    /\ file_hashes' = MapPut(file_hashes, loc[w].path, loc[w].hash)
    /\ Goto(w, "persist_get")
    /\ UNCHANGED <<disk, documents, rlocks, loc, last_insert, ncalls>>
    /\ ConcFrame
    /\ UNCHANGED <<evict_log, bvars>>

\* persist_to_disk, lines 303-304: the entry now in the map is read under
\* a read guard, which is kept until the write is over, and serialized.
\* Without an entry (evicted meanwhile) the call returns Ok.
CPersistGet(w) ==
    /\ At(w, "persist_get")
    /\ IF loc[w].path \in DOMAIN documents
       THEN /\ rlocks' = get_guard(rlocks, w, ShardOf(loc[w].path))
            /\ loc' = [loc EXCEPT ![w].content =
                          Persisted(loc[w].path, documents[loc[w].path])]
            /\ Goto(w, "persist_open")
       ELSE /\ loc' = [loc EXCEPT ![w] = NoLoc]
            /\ Goto(w, "idle")
            /\ UNCHANGED rlocks
    /\ UNCHANGED <<disk, documents, file_hashes, last_insert, ncalls>>
    /\ ConcFrame
    /\ UNCHANGED <<evict_log, bvars>>

\* std::fs::write, line 305: File::create truncates the file in place ...
CPersistOpen(w) ==
    /\ At(w, "persist_open")
    /\ disk' = MapPut(disk, get_cache_file_path(loc[w].path), PartialFile)
    /\ Goto(w, "persist_write")
    /\ UNCHANGED <<documents, file_hashes, rlocks, loc, last_insert, ncalls>>
    /\ ConcFrame
    /\ UNCHANGED <<evict_log, bvars>>

\* ... and write_all fills it; the guard is dropped and the call returns.
CPersistWrite(w) ==
    /\ At(w, "persist_write")
    /\ disk' = MapPut(disk, get_cache_file_path(loc[w].path), loc[w].content)
    /\ rlocks' = drop_guard(rlocks, w, ShardOf(loc[w].path))
    /\ loc' = [loc EXCEPT ![w] = NoLoc]
    /\ Goto(w, "idle")
    /\ UNCHANGED <<documents, file_hashes, last_insert, ncalls>>
    /\ ConcFrame
    /\ UNCHANGED <<evict_log, bvars>>

NextConc ==
    \/ \E w \in Workers, p \in Paths : \E d \in ConcDocs(p) : CStoreBegin(w, p, d)
    \/ \E w \in Workers : CEvictCheck(w)
    \/ \E w \in Workers, order \in Orders(DOMAIN documents) : CEvictCollect(w, order)
    \/ \E w \in Workers : CEvictRemove(w)
    \/ \E w \in Workers : CInsert(w)
    \/ \E w \in Workers : CHashesInsert(w)
    \/ \E w \in Workers : CPersistGet(w)
    \/ \E w \in Workers : CPersistOpen(w)
    \/ \E w \in Workers : CPersistWrite(w)

SpecConc == Init /\ [][NextConc]_vars


\* ------------------------------------------------------------- discovery

\* A file under the source root is the sequence of the names on its path,
\* directories first, relative to the source root.
HiddenNames == {".git", ".sphinx-ultra-cache"}

\* line 173-175: hidden directories and the two build-artifact names.
skipped_dir(name) ==
    name \in HiddenNames \/ name = "_build" \/ name = "__pycache__"

\* Path::extension of a file name or path.
Extension(name) ==
    CASE name \in {"index.rst", "contents.rst", "part.rst", PathA, PathU, PathRaw} -> "rst"
      [] name \in {"page.md"} -> "md"
      [] name \in {"notes.txt", "robots.txt", "old.txt", "x.txt", "index.rst.txt"} -> "txt"
      [] name \in {"guide/index.rst", "guide/part.rst"} -> "rst"
      [] name \in {"index.html"} -> "html"
      [] OTHER -> ""

\* is_source_file, lines 189-195
is_source_file(f) == Extension(f[Len(f)]) \in {"rst", "md", "txt"}

IsPrefix(a, b) == Len(a) <= Len(b) /\ SubSeq(b, 1, Len(a)) = a

\* The entries read_dir(dir) yields: the files of dir and its directories.
FilesIn(tr, dir) == {f \in tr : Len(f) = Len(dir) + 1 /\ IsPrefix(dir, f)}
DirsIn(tr, dir) == {f[Len(dir) + 1] : f \in {g \in tr : Len(g) > Len(dir) + 1 /\ IsPrefix(dir, g)}}

\* discover_files_sync, lines 165-187, on the directory dir (depth levels of
\* directories left below it).
RECURSIVE discover_files_sync(_, _, _)
discover_files_sync(tr, dir, depth) ==
    {f \in FilesIn(tr, dir) : is_source_file(f)}
    \cup (IF depth = 0 THEN {}
          ELSE UNION {discover_files_sync(tr, Append(dir, n), depth - 1) :
                         n \in {m \in DirsIn(tr, dir) : ~skipped_dir(m)}})

TreeDepth(tr) == IF tr = {} THEN 0 ELSE CHOOSE n \in 0..8 : \A f \in tr : Len(f) <= n + 1 /\ (\E g \in tr : Len(g) = n + 1)

\* discover_source_files, lines 158-163
discover_source_files(tr) == discover_files_sync(tr, <<>>, TreeDepth(tr))

\* The files a source tree may hold; the output directory of an earlier
\* build lies inside it, with what that build and its user put there.
TreeFiles ==
    {<<"index.rst">>, <<"guide", "page.md">>, <<".git", "notes.txt">>,
     <<"_build", "old.txt">>, <<"_build", "index.html">>,
     <<"out", "index.html">>, <<"out", "_static", "robots.txt">>,
     <<"__pycache__", "x.txt">>}

\* Output directories: the default, another name under the source root, and
\* one outside the source root (no file of the tree is under it).
OutputDirs == {<<"_build">>, <<"out">>, <<"..", "html">>}

InitDiscover ==
    /\ InitCache
    /\ disk = [k \in {} |-> CorruptFile]
    /\ \E out \in OutputDirs : config = [DefaultConfig EXCEPT !.output_dir = out]
    /\ tree \in SUBSET TreeFiles
    /\ stage = "Discovering"
    /\ source_files = {}
    /\ job = [q \in {} |-> "none"]
    /\ processed_docs = {}
    /\ warnings = <<>>
    /\ stats = NoStats
    /\ exit_code = -1
    /\ outputs = {}
    /\ prior = NoPrior

CacheFrame ==
    UNCHANGED <<files, now, disk, documents, file_hashes, hit_count, miss_count,
                rlocks, pc, loc, last, last_insert, ncalls, nenv, evict_log>>

\* build, lines 107-109: the Discovering stage.
Discover ==
    /\ stage = "Discovering"
    /\ source_files' = discover_source_files(tree)
    /\ stage' = "GraphBuilding"
    /\ UNCHANGED <<config, tree, job, processed_docs, warnings, stats, exit_code,
                   outputs, prior>>
    /\ CacheFrame

NextDiscover == Discover

SpecDiscover == InitDiscover /\ [][NextDiscover]_vars

\* -------------------------------------------------------------- validator

\* Source files of the trees the validator is run on.
VPaths == {"index.rst", "contents.rst", "guide/index.rst", "guide/part.rst"}

\* lines 395-400 and 428-433: the path relative to the source root, without
\* its extension, as a lossy string; the string is kept as the sequence of
\* its parts between the slashes.
doc_path_no_ext(p) ==
    CASE p = "index.rst" -> <<"index">>
      [] p = "contents.rst" -> <<"contents">>
      [] p = "guide/index.rst" -> <<"guide", "index">>
      [] p = "guide/part.rst" -> <<"guide", "part">>
      [] p = PathA -> <<"a">>
      [] p = PathU -> <<"u\\uFFFD">>
      [] p = PathRaw -> <<"u\\uFFFD">>

\* The trimmed lines of the toctree directives of a document.  A line that
\* names a document is the sequence of the parts of that name; the others
\* are an option, a comment and the empty line.
OptionLine == <<":maxdepth: 2">>
CommentLine == <<".. a comment">>
BlankLine == <<>>
TocEntries == {<<"guide">>, <<"contents">>, <<"missing-page">>}
TocLines == TocEntries \cup {OptionLine}

\* lines 471-473
is_reference_line(line) ==
    line # BlankLine /\ line # OptionLine /\ line # CommentLine

\* extract_toctree_references, lines 459-488 (an empty sequence for None).
extract_toctree_references(doc) ==
    IF Extension(doc.source_path) = "rst"
    THEN SelectSeq(doc.toctree, is_reference_line)
    ELSE <<>>

\* lines 393-409: the three sets collected from the documents.
all_documents(docs) == {doc_path_no_ext(d.source_path) : d \in docs}

toctree_references(docs) ==
    UNION {{<<d.source_path, r>> : r \in SeqRange(extract_toctree_references(d))} : d \in docs}

referenced_files(docs) ==
    UNION {SeqRange(extract_toctree_references(d)) : d \in docs}

\* line 416 with only the reference itself looked up.
resolves_exact(all, reference) == reference \in all

\* lines 413-416: the reference names a document, or a directory with an
\* index document.
resolves(all, reference) ==
    Append(reference, "index") \in all \/ reference \in all

MissingWarning(file, reference) ==
    [file |-> file, kind |-> "MissingToctreeRef", reference |-> reference]
OrphanWarning(file) ==
    [file |-> file, kind |-> "OrphanedDocument", reference |-> <<>>]

\* lines 412-424: the pairs warned about.
missing_toctree_refs(docs) ==
    {pr \in toctree_references(docs) : ~resolves(all_documents(docs), pr[2])}

\* lines 441-445
is_referenced(name, refs) ==
    \E ref_path \in refs :
        \/ ref_path = name
        \/ ref_path = Append(name, "index")
        \/ (Len(ref_path) < Len(name) /\ IsPrefix(ref_path, name))

\* lines 427-451: the documents warned about.
orphaned_documents(docs) ==
    {d \in docs : /\ doc_path_no_ext(d.source_path) # <<"index">>
                  /\ ~is_referenced(doc_path_no_ext(d.source_path), referenced_files(docs))}

\* validate_documents, lines 381-457: the warnings pushed, the missing
\* references in the order the HashSet iterates in, then the orphans in the
\* order of the documents.
validate_documents(docs, pair_order, doc_order) ==
    LET Missing(pr) == MissingWarning(pr[1], pr[2])
        Orphan(d) == OrphanWarning(d.source_path)
        IsOrphan(d) == d \in orphaned_documents(docs)
        orphans == SelectSeq(doc_order, IsOrphan)
    IN [i \in 1..Len(pair_order) |-> Missing(pair_order[i])]
       \o [i \in 1..Len(orphans) |-> Orphan(orphans[i])]

\* The documents of a tree: index.rst with a toctree of up to MaxTocLines
\* lines, contents.rst with one of at most a line, the other two without.
TocTrees == UNION {[1..n -> TocLines] : n \in 0..MaxTocLines}
ShortTocTrees == UNION {[1..n -> TocLines] : n \in 0..1}
VDoc(p, toc) == [source_path |-> p, toctree |-> toc]
RootDocs == {<<"index">>, <<"contents">>}

InitValidate ==
    /\ InitCache
    /\ disk = [k \in {} |-> CorruptFile]
    /\ \E root \in RootDocs : config = [DefaultConfig EXCEPT !.root_doc = root]
    /\ tree = {}
    /\ stage = "Validating"
    /\ source_files = {}
    /\ job = [q \in {} |-> "none"]
    /\ \E t1 \in TocTrees, t2 \in ShortTocTrees, rest \in SUBSET {"guide/index.rst", "guide/part.rst"},
          tops \in (SUBSET {"index.rst", "contents.rst"}) \ {{}} :
          processed_docs =
              {VDoc(p, <<>>) : p \in rest}
              \cup {VDoc(p, IF p = "index.rst" THEN t1 ELSE t2) : p \in tops}
    /\ \E old \in {<<>>, <<OrphanWarning("contents.rst")>>} : warnings = old
    /\ stats = NoStats
    /\ exit_code = -1
    /\ outputs = {}
    /\ prior = [NoPrior EXCEPT !.warnings0 = Len(warnings)]

\* build, lines 123-125: the Validating stage.
Validate(pair_order, doc_order) ==
    /\ stage = "Validating"
    /\ pair_order \in Orders(missing_toctree_refs(processed_docs))
    /\ doc_order \in Orders(processed_docs)
    /\ warnings' = warnings \o validate_documents(processed_docs, pair_order, doc_order)
    /\ prior' = [prior EXCEPT !.warnings0 = Len(warnings)]
    /\ stage' = "Finishing"
    /\ UNCHANGED <<config, tree, source_files, job, processed_docs, stats, exit_code,
                   outputs>>
    /\ CacheFrame

NextValidate ==
    \E pair_order \in Orders(missing_toctree_refs(processed_docs)),
       doc_order \in Orders(processed_docs) : Validate(pair_order, doc_order)

SpecValidate == InitValidate /\ [][NextValidate]_vars

\* ---------------------------------------------------------------- build

\* The text of a document parsed from a source file: one MiB with the
\* overhead of its cache entry.
DocTextLen == BytesPerMb - Overhead

\* The toctree of a source file: a file of content "c2" lists the document a.
TocOf(content) == IF content = "c2" THEN <<<<"a">>>> ELSE <<>>

\* Parser::parse, parser.rs 41-45: the document of a file.
Parse(p, f) ==
    [source_path |-> p, text_len |-> DocTextLen, toctree |-> TocOf(f.content),
     source_mtime |-> f.mtime]

\* process_single_file as it would be if it used the cache in every build.
use_cache_always(incremental) == TRUE

\* lines 243 and 271: the cache is looked in and stored to with incremental
\* builds only.
use_cache(incremental) == incremental

\* get_output_path, lines 278-286: the file under the output directory with
\* the extension html.
get_output_path(p) ==
    CASE p = PathA -> "a.html"
      [] p = PathU -> "u\\uFFFD.html"
      [] p = PathRaw -> "u\\xFF.html"

\* process_single_file as it would be if it did not write the rendered file.
write_output_skipped(outs, o) == outs

\* lines 264-268: std::fs::write of the rendered file.
write_output(outs, o) == outs \cup {o}

NoJob == [st |-> "pending", doc |-> NoDoc]

BuildFrame == UNCHANGED <<now, last, last_insert, ncalls, nenv, evict_log>>

\* main.rs 117-129 in a new process: SphinxBuilder::new constructs the
\* BuildCache over the cache directory; the flags are those of the run
\* before.  The process before has exited, or hangs and is killed.
NewProcess(order) ==
    /\ prior.builds < MaxBuilds
    /\ exit_code # -1 \/ \E w \in Workers : pc[w] = "blocked"
    /\ documents' = load_from_disk(disk, order, files, now).docs
    /\ file_hashes' = MapRemoveAll(file_hashes, DOMAIN file_hashes)
    /\ hit_count' = 0
    /\ miss_count' = 0
    /\ rlocks' = [s \in Shards |-> {}]
    /\ pc' = [w \in Workers |-> "idle"]
    /\ loc' = [w \in Workers |-> NoLoc]
    /\ stage' = "idle"
    /\ source_files' = {}
    /\ job' = [q \in {} |-> NoJob]
    /\ processed_docs' = {}
    /\ warnings' = <<>>
    /\ stats' = NoStats
    /\ exit_code' = -1
    /\ prior' = [prior EXCEPT !.parsed = {}, !.fatal = FALSE, !.reported = FALSE,
                              !.warnings0 = 0, !.served = {}, !.edited = FALSE,
                              !.prev = NoStats]
    /\ UNCHANGED <<files, disk, config, tree>>
    /\ UNCHANGED outputs
    /\ BuildFrame

\* build, lines 100-105: create_dir_all of the output directory.
BuildStart(ok) ==
    /\ stage = "idle"
    /\ prior.builds < MaxBuilds
    /\ stage' = IF ok THEN "Discovering" ELSE "Failed"
    /\ tree' = {<<p>> : p \in {q \in Paths : files[q].exists}}
    /\ prior' = [prior EXCEPT !.builds = @ + 1, !.parsed = {}, !.fatal = ~ok]
    /\ UNCHANGED <<files, disk, documents, file_hashes, hit_count, miss_count,
                   rlocks, pc, loc, config, source_files, job, processed_docs,
                   warnings, stats, exit_code>>
    /\ UNCHANGED outputs
    /\ BuildFrame

\* build, lines 111-116: build_dependency_graph; then process_files_parallel
\* hands the files to the pool.
BuildGraph ==
    /\ stage = "GraphBuilding"
    /\ stage' = "Processing"
    /\ job' = [f \in source_files |-> NoJob]
    /\ UNCHANGED <<files, disk, documents, file_hashes, hit_count, miss_count,
                   rlocks, pc, loc, config, tree, source_files, processed_docs,
                   warnings, stats, exit_code, prior>>
    /\ UNCHANGED outputs
    /\ BuildFrame

\* process_single_file, lines 239-251, run by pool thread w on file f: with
\* incremental builds the lookup in the cache.  An error of get_document (a
\* miss, an unreadable file) sends the file on to be parsed.
JobBegin(w, f) ==
    /\ stage = "Processing"
    /\ f \in DOMAIN job /\ job[f].st = "pending"
    /\ pc[w] = "idle"
    /\ LET p == f[Len(f)]
           h == calculate_file_hash(files, p)
           s == ShardOf(p)
           running == [pc EXCEPT ![w] = "job"]
           parse == [job EXCEPT ![f].st = "running"]
           looked == use_cache(config.incremental) /\ h.ok /\ p \in DOMAIN documents
           found == [kind |-> "lookup",
                     fresh |-> /\ documents[p].hash = h.hash
                               /\ ~is_expired(documents[p].cached_at, now),
                     recent |-> documents[p].document.source_mtime >= files[p].mtime]
       IN /\ loc' = [loc EXCEPT ![w] = [NoLoc EXCEPT !.path = p,
                                           !.content = IF looked THEN found ELSE @]]
          /\ prior' = IF /\ looked
                         /\ WriteLockFree(get_guard(rlocks, w, s), s)
                         /\ found.fresh /\ found.recent
                      THEN [prior EXCEPT !.served = @ \cup {p}]
                      ELSE prior
          /\ IF ~use_cache(config.incremental) \/ ~h.ok
             THEN /\ pc' = running /\ job' = parse
                  /\ UNCHANGED <<documents, hit_count, miss_count, rlocks>>
             ELSE IF p \notin DOMAIN documents
             THEN /\ miss_count' = miss_count + 1
                  /\ pc' = running /\ job' = parse
                  /\ UNCHANGED <<documents, hit_count, rlocks>>
             ELSE LET cached == documents[p]
                      held == get_guard(rlocks, w, s)
                      fresh == cached.hash = h.hash /\ ~is_expired(cached.cached_at, now)
                  IN IF ~WriteLockFree(held, s)
                     THEN /\ rlocks' = held
                          /\ pc' = [pc EXCEPT ![w] = "blocked"]
                          /\ job' = parse
                          /\ UNCHANGED <<documents, hit_count, miss_count>>
                     ELSE IF fresh
                     THEN /\ documents' = [documents EXCEPT ![p].access_count = @ + 1]
                          /\ hit_count' = hit_count + 1
                          /\ IF cached.document.source_mtime >= files[p].mtime
                             THEN /\ job' = [job EXCEPT ![f] = [st |-> "ok", doc |-> cached.document]]
                                  /\ pc' = pc
                             ELSE /\ job' = parse
                                  /\ pc' = running
                          /\ UNCHANGED <<miss_count, rlocks>>
                     ELSE /\ documents' = MapRemove(documents, p)
                          /\ miss_count' = miss_count + 1
                          /\ pc' = running /\ job' = parse
                          /\ UNCHANGED <<hit_count, rlocks>>
    /\ UNCHANGED <<files, disk, file_hashes, config, tree, stage, source_files,
                   processed_docs, warnings, stats, exit_code>>
    /\ UNCHANGED outputs
    /\ BuildFrame

\* process_single_file, lines 253-275: read, parse, render, write the output
\* and, with incremental builds, store the document.  failure is the step
\* that fails (an unreadable or malformed source, an unwritable output or
\* cache file), if any.
JobFinish(w, f, failure, order) ==
    /\ stage = "Processing"
    /\ pc[w] = "job"
    /\ f \in DOMAIN job /\ job[f].st = "running" /\ loc[w].path = f[Len(f)]
    /\ LET p == f[Len(f)]
           document == Parse(p, files[p])
           cached_doc == NewEntry(document, Fingerprint(files[p]), now)
           evicted == SeqRange(evict_if_needed(documents, order,
                                               estimate_document_size(document)))
           failed == [job EXCEPT ![f].st = "err"]
           done == [job EXCEPT ![f] = [st |-> "ok", doc |-> document]]
       IN IF ~files[p].exists \/ failure \in {"read", "parse", "output"}
          THEN /\ job' = failed
               /\ prior' = IF files[p].exists /\ failure = "output"
                           THEN [prior EXCEPT !.parsed = @ \cup {p}] ELSE prior
               /\ UNCHANGED <<documents, file_hashes, disk, outputs>>
          ELSE /\ prior' = [prior EXCEPT !.parsed = @ \cup {p}]
               /\ outputs' = write_output(outputs, get_output_path(p))
               /\ IF ~use_cache(config.incremental)
                  THEN /\ job' = done
                       /\ UNCHANGED <<documents, file_hashes, disk>>
                  ELSE /\ \A q \in evicted \cup {p} : WriteLockFree(rlocks, ShardOf(q))
                       /\ documents' = MapPut(MapRemoveAll(documents, evicted), p, cached_doc)
                       /\ file_hashes' = MapPut(MapRemoveAll(file_hashes, evicted), p,
                                                cached_doc.hash)
                       /\ IF failure = "cache"
                          THEN /\ disk' = disk
                               /\ job' = failed
                          ELSE /\ disk' = MapPut(disk, get_cache_file_path(p),
                                                 Persisted(p, cached_doc))
                               /\ job' = done
    /\ pc' = [pc EXCEPT ![w] = "idle"]
    /\ loc' = [loc EXCEPT ![w] = NoLoc]
    /\ UNCHANGED <<files, hit_count, miss_count, rlocks, config, tree, stage,
                   source_files, processed_docs, warnings, stats, exit_code>>
    /\ BuildFrame

\* pool.install as it would be if it returned while files are in work.
processing_complete_early(jb, pcs) ==
    \/ \A f \in DOMAIN jb : jb[f].st # "pending"
    \/ \E f \in DOMAIN jb : jb[f].st = "err"

\* pool.install, lines 228-233: it returns when no thread is at work on a
\* file and every file has been processed or, after an error, was not begun.
processing_complete(jb, pcs) ==
    /\ \A f \in DOMAIN jb : jb[f].st # "running"
    /\ \A w \in Workers : pcs[w] = "idle"
    /\ \/ \A f \in DOMAIN jb : jb[f].st \in {"ok", "err"}
       \/ \E f \in DOMAIN jb : jb[f].st = "err"

\* collect as it would be if the errors were dropped from the results.
process_result_lenient(jb) == "ok"

\* collect into Result<Vec<_>, _>, lines 228-235: an error of any file is
\* the result.
process_result(jb) ==
    IF \E f \in DOMAIN jb : jb[f].st = "err" THEN "err" ELSE "ok"

\* build, lines 119-121: process_files_parallel returns.
ProcessJoin ==
    /\ stage = "Processing"
    /\ processing_complete(job, pc)
    /\ IF process_result(job) = "err"
       THEN /\ stage' = "Failed"
            /\ prior' = [prior EXCEPT !.fatal = TRUE]
            /\ UNCHANGED processed_docs
       ELSE /\ stage' = "Validating"
            /\ processed_docs' = {job[f].doc : f \in {g \in DOMAIN job : job[g].st = "ok"}}
            /\ prior' = prior
    /\ UNCHANGED <<files, disk, documents, file_hashes, hit_count, miss_count,
                   rlocks, pc, loc, config, tree, source_files, job, warnings,
                   stats, exit_code>>
    /\ UNCHANGED outputs
    /\ BuildFrame

\* build, lines 127-155: the indices, the static assets, the search index
\* and the size of the output; then the BuildStats.
Finish(ok) ==
    /\ stage = "Finishing"
    /\ IF ok
       THEN /\ stage' = "Done"
            /\ stats' = [files_processed |-> Cardinality(processed_docs),
                         cache_hits |-> hit_count,
                         warnings |-> Len(warnings),
                         made |-> TRUE]
            /\ prior' = [prior EXCEPT !.earlier = @ \/ config.incremental]
       ELSE /\ stage' = "Failed"
            /\ stats' = stats
            /\ prior' = [prior EXCEPT !.fatal = TRUE]
    /\ UNCHANGED <<files, disk, documents, file_hashes, hit_count, miss_count,
                   rlocks, pc, loc, config, tree, source_files, job, processed_docs,
                   warnings, exit_code>>
    /\ UNCHANGED outputs
    /\ BuildFrame

\* main.rs 133-187: the warnings and errors are printed, and written to the
\* warning file when one is given; an error of that file ends the command.
MainReport(ok) ==
    /\ stage = "Done"
    /\ exit_code = -1
    /\ ~prior.reported
    /\ IF ok
       THEN /\ prior' = [prior EXCEPT !.reported = TRUE]
            /\ exit_code' = exit_code
       ELSE /\ prior' = [prior EXCEPT !.fatal = TRUE]
            /\ exit_code' = 1
    /\ UNCHANGED <<files, disk, documents, file_hashes, hit_count, miss_count,
                   rlocks, pc, loc, config, tree, stage, source_files, job,
                   processed_docs, warnings, stats>>
    /\ UNCHANGED outputs
    /\ BuildFrame

\* main.rs 190 as it would be without the test.
exit_status_ignoring(fail_on_warning, nwarnings) == 0

\* main.rs 189-193 and 246: exit(1) with fail-on-warning and warnings, else
\* Ok(()) and exit code 0.
exit_status(fail_on_warning, nwarnings) ==
    IF fail_on_warning /\ nwarnings > 0 THEN 1 ELSE 0

\* main.rs 131 (the ? on an error of build) and 189-246.
MainExit ==
    /\ exit_code = -1
    /\ \/ /\ stage = "Failed"
          /\ exit_code' = 1
       \/ /\ stage = "Done"
          /\ prior.reported
          /\ exit_code' = exit_status(config.fail_on_warning, stats.warnings)
    /\ UNCHANGED <<files, disk, documents, file_hashes, hit_count, miss_count,
                   rlocks, pc, loc, config, tree, stage, source_files, job,
                   processed_docs, warnings, stats, prior>>
    /\ UNCHANGED outputs
    /\ BuildFrame

\* The source trees a build is run on, and the flags of the command.
SourceFiles ==
    {NoFile, [exists |-> TRUE, content |-> "c1", mtime |-> 0],
     [exists |-> TRUE, content |-> "c2", mtime |-> 0]}

InitBuild ==
    /\ files \in [Paths -> SourceFiles]
    /\ now = 0
    /\ disk = [k \in {} |-> CorruptFile]
    /\ documents = EmptyMap
    /\ file_hashes = [q \in {} |-> <<"", 0>>]
    /\ hit_count = 0
    /\ miss_count = 0
    /\ rlocks = [s \in Shards |-> {}]
    /\ pc = [w \in Workers |-> "idle"]
    /\ loc = [w \in Workers |-> NoLoc]
    /\ last = NoCall
    /\ last_insert = [q \in {} |-> [doc |-> NoDoc, live |-> FALSE]]
    /\ ncalls = 0
    /\ nenv = 0
    /\ evict_log = NoEvict
    /\ \E inc \in BOOLEAN, fow \in BOOLEAN :
          config = [DefaultConfig EXCEPT !.incremental = inc, !.fail_on_warning = fow]
    /\ InitBuilder

NextBuild ==
    \/ \E order \in Orders(DOMAIN disk) : NewProcess(order)
    \/ \E ok \in BOOLEAN : BuildStart(ok)
    \/ Discover
    \/ BuildGraph
    \/ \E w \in Workers, f \in source_files : JobBegin(w, f)
    \/ \E w \in Workers, f \in source_files,
          failure \in {"none", "read", "parse", "output", "cache"},
          order \in Orders(DOMAIN documents) : JobFinish(w, f, failure, order)
    \/ ProcessJoin
    \/ \E pair_order \in Orders(missing_toctree_refs(processed_docs)),
          doc_order \in Orders(processed_docs) : Validate(pair_order, doc_order)
    \/ \E ok \in BOOLEAN : Finish(ok)
    \/ \E ok \in BOOLEAN : MainReport(ok)
    \/ MainExit

SpecBuild == InitBuild /\ [][NextBuild]_vars

\* ------------------ runs of the command with its flags, and builds in a row

\* main.rs 117-129 in a new process: SphinxBuilder::new constructs the
\* BuildCache over the cache directory, which lies in the output directory;
\* with --clean the output directory is then removed, the cache files with
\* it and the entries just loaded staying in memory; --incremental sets the
\* flag of the builder.  The process before has exited, or hangs and is
\* killed.
MainSetup(order, inc, cl) ==
    /\ prior.builds < MaxBuilds
    /\ exit_code # -1 \/ \E w \in Workers : pc[w] = "blocked"
    /\ documents' = load_from_disk(disk, order, files, now).docs
    /\ disk' = IF cl THEN MapRemoveAll(disk, DOMAIN disk) ELSE disk
    /\ outputs' = IF cl THEN {} ELSE outputs
    /\ config' = [config EXCEPT !.incremental = inc, !.clean = cl]
    /\ file_hashes' = MapRemoveAll(file_hashes, DOMAIN file_hashes)
    /\ hit_count' = 0
    /\ miss_count' = 0
    /\ rlocks' = [s \in Shards |-> {}]
    /\ pc' = [w \in Workers |-> "idle"]
    /\ loc' = [w \in Workers |-> NoLoc]
    /\ stage' = "idle"
    /\ source_files' = {}
    /\ job' = [q \in {} |-> NoJob]
    /\ processed_docs' = {}
    /\ warnings' = <<>>
    /\ stats' = NoStats
    /\ exit_code' = -1
    /\ prior' = [prior EXCEPT !.parsed = {}, !.fatal = FALSE, !.reported = FALSE,
                              !.warnings0 = 0, !.served = {}, !.edited = FALSE,
                              !.prev = NoStats]
    /\ UNCHANGED <<files, tree>>
    /\ BuildFrame

\* build called again on the same SphinxBuilder (lib.rs exports it), after
\* the invocation before has returned: the locals of build are new, the
\* fields of the builder (cache, counters, warnings) are as they were left.
BuildAgain(ok) ==
    /\ stage \in {"Done", "Failed"}
    /\ exit_code = -1
    /\ ~prior.reported
    /\ prior.builds < MaxBuilds
    /\ \A w \in Workers : pc[w] = "idle"
    /\ stage' = IF ok THEN "Discovering" ELSE "Failed"
    /\ tree' = {<<p>> : p \in {q \in Paths : files[q].exists}}
    /\ source_files' = {}
    /\ job' = [q \in {} |-> NoJob]
    /\ processed_docs' = {}
    /\ stats' = NoStats
    /\ prior' = [prior EXCEPT !.builds = @ + 1, !.parsed = {}, !.served = {},
                              !.fatal = ~ok, !.prev = stats]
    /\ UNCHANGED <<files, disk, documents, file_hashes, hit_count, miss_count,
                   rlocks, pc, loc, config, warnings, exit_code, outputs>>
    /\ BuildFrame

\* A source file rewritten or touched from outside.
RunVersions == [exists : {TRUE}, content : Contents, mtime : {0, SubSecMs}]

EditFile(p, v) ==
    /\ nenv < MaxEnv
    /\ files[p].exists
    /\ files[p] # v
    /\ files' = [files EXCEPT ![p] = v]
    /\ nenv' = nenv + 1
    /\ prior' = [prior EXCEPT !.edited = TRUE]
    /\ UNCHANGED <<now, disk, documents, file_hashes, hit_count, miss_count,
                   rlocks, pc, loc, last, last_insert, ncalls, evict_log,
                   config, tree, stage, source_files, job, processed_docs,
                   warnings, stats, exit_code, outputs>>

InitRuns ==
    /\ files \in [Paths -> SourceFiles]
    /\ files[PathA].exists /\ files[PathA].content = "c1"
    /\ ~files[PathRaw].exists
    /\ files[PathU].exists => files[PathU].content = "c1"
    /\ now = 0
    /\ disk = [k \in {} |-> CorruptFile]
    /\ documents = EmptyMap
    /\ file_hashes = [q \in {} |-> <<"", 0>>]
    /\ hit_count = 0
    /\ miss_count = 0
    /\ rlocks = [s \in Shards |-> {}]
    /\ pc = [w \in Workers |-> "idle"]
    /\ loc = [w \in Workers |-> NoLoc]
    /\ last = NoCall
    /\ last_insert = [q \in {} |-> [doc |-> NoDoc, live |-> FALSE]]
    /\ ncalls = 0
    /\ nenv = 0
    /\ evict_log = NoEvict
    /\ \E inc \in BOOLEAN : config = [DefaultConfig EXCEPT !.incremental = inc]
    /\ InitBuilder

NextRuns ==
    \/ \E order \in Orders(DOMAIN disk), inc \in BOOLEAN, cl \in BOOLEAN :
          MainSetup(order, inc, cl)
    \/ BuildStart(TRUE)
    \/ BuildAgain(TRUE)
    \/ Discover
    \/ BuildGraph
    \/ \E w \in Workers, f \in source_files : JobBegin(w, f)
    \/ \E w \in Workers, f \in source_files, failure \in {"none", "output"},
          order \in Orders(DOMAIN documents) : JobFinish(w, f, failure, order)
    \/ ProcessJoin
    \/ \E pair_order \in Orders(missing_toctree_refs(processed_docs)),
          doc_order \in Orders(processed_docs) : Validate(pair_order, doc_order)
    \/ Finish(TRUE)
    \/ MainReport(TRUE)
    \/ MainExit
    \/ \E p \in Paths, v \in RunVersions : EditFile(p, v)

SpecRuns == InitRuns /\ [][NextRuns]_vars

\* ------------------------------ hit_ratio while other workers run lookups

\* hit_ratio without the test for an empty history.
hit_ratio_unguarded(hits, misses) == [num |-> hits, den |-> hits + misses]

\* hit_ratio, lines 156-162: the value returned for the two counters read,
\* as the fraction num/den (f64 holds the counters exactly).
hit_ratio(hits, misses) ==
    IF hits + misses > 0
    THEN [num |-> hits, den |-> hits + misses]
    ELSE [num |-> 0, den |-> 1]

RatioIdle(w) == pc[w] = "idle" /\ ncalls < MaxRatioCalls

\* The locals of the workers after the counters became <<h, m>>: a worker
\* inside hit_ratio has seen one more pair of counter values.
Seeing(h, m) ==
    [v \in Workers |->
        IF pc[v] = "ratio_misses"
        THEN [loc[v] EXCEPT !.seen = @ \cup {<<h, m>>}]
        ELSE loc[v]]

\* line 157: *self.hit_count.read()
RatioReadHits(w) ==
    /\ RatioIdle(w)
    /\ loc' = [loc EXCEPT ![w] = [NoLoc EXCEPT !.hits = hit_count,
                                     !.seen = {<<hit_count, miss_count>>}]]
    /\ Goto(w, "ratio_misses")
    /\ ncalls' = ncalls + 1
    /\ UNCHANGED <<files, now, disk, documents, file_hashes, hit_count, miss_count,
                   rlocks, last, last_insert, nenv>>
    /\ UNCHANGED <<evict_log, bvars>>

\* lines 158-163: *self.miss_count.read() and the division.
RatioReadMisses(w) ==
    /\ At(w, "ratio_misses")
    /\ last' = [Call("hit_ratio", "", NoDoc, "ok") EXCEPT
                   !.hits = loc[w].hits, !.misses = miss_count,
                   !.seen = loc[w].seen,
                   !.ratio = hit_ratio(loc[w].hits, miss_count)]
    /\ loc' = [loc EXCEPT ![w] = NoLoc]
    /\ Goto(w, "idle")
    /\ UNCHANGED <<files, now, disk, documents, file_hashes, hit_count, miss_count,
                   rlocks, last_insert, ncalls, nenv>>
    /\ UNCHANGED <<evict_log, bvars>>

\* get_document called by worker w (GetDocument, for any worker): the
\* counters change under their own locks, one at a time.
Lookup(w, p) ==
    /\ RatioIdle(w)
    /\ ncalls' = ncalls + 1
    /\ LET h == calculate_file_hash(files, p)
           s == ShardOf(p)
       IN IF ~h.ok
          THEN /\ last' = Call("get", p, NoDoc, "err_io")
               /\ UNCHANGED <<documents, hit_count, miss_count, rlocks, pc, loc>>
          ELSE IF p \notin DOMAIN documents
          THEN /\ miss_count' = miss_count + 1
               /\ loc' = Seeing(hit_count, miss_count + 1)
               /\ last' = Call("get", p, NoDoc, "miss")
               /\ UNCHANGED <<documents, hit_count, rlocks, pc>>
          ELSE LET cached == documents[p]
                   held == get_guard(rlocks, w, s)
                   fresh == cached.hash = h.hash /\ ~is_expired(cached.cached_at, now)
               IN IF ~WriteLockFree(held, s)
                  THEN /\ rlocks' = held
                       /\ Goto(w, "blocked")
                       /\ last' = Call("get", p, cached.document, "blocked")
                       /\ UNCHANGED <<documents, hit_count, miss_count, loc>>
                  ELSE IF fresh
                  THEN /\ documents' = [documents EXCEPT ![p].access_count = @ + 1]
                       /\ hit_count' = hit_count + 1
                       /\ loc' = Seeing(hit_count + 1, miss_count)
                       /\ last' = Call("get", p, cached.document, "hit")
                       /\ UNCHANGED <<miss_count, rlocks, pc>>
                  ELSE /\ documents' = MapRemove(documents, p)
                       /\ miss_count' = miss_count + 1
                       /\ loc' = Seeing(hit_count, miss_count + 1)
                       /\ last' = Call("get", p, cached.document, "miss")
                       /\ UNCHANGED <<hit_count, rlocks, pc>>
    /\ UNCHANGED <<files, now, disk, file_hashes, last_insert, nenv>>
    /\ UNCHANGED <<evict_log, bvars>>

NextRatio ==
    \/ \E w \in Workers : RatioReadHits(w)
    \/ \E w \in Workers : RatioReadMisses(w)
    \/ \E w \in Workers, p \in Paths : Lookup(w, p)
    \/ \E p \in Paths : \E d \in ConcDocs(p), order \in Orders(DOMAIN documents) :
          StoreDocument(p, d, order, TRUE)
    \/ \E p \in Paths : DeleteFile(p)

SpecRatio == Init /\ [][NextRatio]_vars


\* ------------------------------------ get_document step by step, several workers

\* A counter's RwLock as it would be if write() did not exclude other writers.
counter_lock_free_always(pcs, w, holding) == TRUE

\* RwLock::write on a counter, lines 66 and 74: granted when no other worker
\* holds the lock of that counter.
counter_lock_free(pcs, w, holding) == \A v \in Workers \ {w} : pcs[v] # holding

LookupFrame == UNCHANGED <<files, now, disk, file_hashes, last_insert, nenv, evict_log, bvars>>

\* line 56: the fingerprint; an unreadable file ends the call with the error.
LBegin(w, p) ==
    /\ RatioIdle(w)
    /\ ncalls' = ncalls + 1
    /\ LET h == calculate_file_hash(files, p)
       IN IF ~h.ok
          THEN /\ last' = Call("get", p, NoDoc, "err_io")
               /\ UNCHANGED <<pc, loc>>
          ELSE /\ loc' = [loc EXCEPT ![w] = [NoLoc EXCEPT !.path = p, !.hash = h.hash]]
               /\ Goto(w, "get")
               /\ last' = [last EXCEPT !.raced = @ \/ \E v \in Workers \ {w} :
                                                       pc[v] \notin {"idle", "blocked"}]
    /\ UNCHANGED <<documents, hit_count, miss_count, rlocks>>
    /\ LookupFrame

\* lines 58-72: documents.get, and with an entry alter (fresh) or remove
\* (stale, expired) while the Ref of get is alive.
LGet(w) ==
    /\ At(w, "get")
    /\ LET p == loc[w].path
           s == ShardOf(p)
       IN IF p \notin DOMAIN documents
          THEN /\ Goto(w, "miss_lock")
               /\ UNCHANGED <<documents, rlocks, loc>>
          ELSE LET cached == documents[p]
                   held == get_guard(rlocks, w, s)
                   fresh == cached.hash = loc[w].hash /\ ~is_expired(cached.cached_at, now)
               IN IF ~WriteLockFree(held, s)
                  THEN /\ rlocks' = held
                       /\ Goto(w, "blocked")
                       /\ UNCHANGED <<documents, loc>>
                  ELSE IF fresh
                  THEN /\ documents' = [documents EXCEPT ![p].access_count = @ + 1]
                       /\ loc' = [loc EXCEPT ![w].doc = cached.document]
                       /\ Goto(w, "hit_lock")
                       /\ UNCHANGED rlocks
                  ELSE /\ documents' = MapRemove(documents, p)
                       /\ Goto(w, "miss_lock")
                       /\ UNCHANGED <<rlocks, loc>>
    /\ UNCHANGED <<hit_count, miss_count, last, ncalls>>
    /\ LookupFrame

\* lines 66 and 74, the left side of += : the write lock of the counter is
\* taken and the counter read.
LCounterLock(w) ==
    /\ \/ /\ At(w, "miss_lock")
          /\ counter_lock_free(pc, w, "miss_bump")
          /\ loc' = [loc EXCEPT ![w].hits = miss_count]
          /\ Goto(w, "miss_bump")
       \/ /\ At(w, "hit_lock")
          /\ counter_lock_free(pc, w, "hit_bump")
          /\ loc' = [loc EXCEPT ![w].hits = hit_count]
          /\ Goto(w, "hit_bump")
    /\ UNCHANGED <<documents, hit_count, miss_count, rlocks, last, ncalls>>
    /\ LookupFrame

\* lines 66-68 and 74-76: the counter written, the lock released and the
\* call returns the document or the miss.
LCounterBump(w) ==
    /\ \/ /\ At(w, "miss_bump")
          /\ miss_count' = loc[w].hits + 1
          /\ last' = [Call("get", loc[w].path, NoDoc, "miss") EXCEPT !.ret_misses = @ + 1]
          /\ UNCHANGED hit_count
       \/ /\ At(w, "hit_bump")
          /\ hit_count' = loc[w].hits + 1
          /\ last' = [Call("get", loc[w].path, loc[w].doc, "hit") EXCEPT !.ret_docs = @ + 1]
          /\ UNCHANGED miss_count
    /\ loc' = [loc EXCEPT ![w] = NoLoc]
    /\ Goto(w, "idle")
    /\ UNCHANGED <<documents, rlocks, ncalls>>
    /\ LookupFrame

NextLookups ==
    \/ \E w \in Workers, p \in Paths : LBegin(w, p)
    \/ \E w \in Workers : LGet(w)
    \/ \E w \in Workers : LCounterLock(w)
    \/ \E w \in Workers : LCounterBump(w)
    \/ \E p \in Paths : \E d \in ConcDocs(p), order \in Orders(DOMAIN documents) :
          StoreDocument(p, d, order, TRUE)
    \/ \E p \in Paths : DeleteFile(p)

SpecLookups == Init /\ [][NextLookups]_vars

\* ------------------------------------- the fingerprints of a file's versions

MTimes == {k * SubSecMs : k \in (0 - MaxHashTicks)..MaxHashTicks}
Versions == [exists : {TRUE}, content : Contents, mtime : MTimes]

InitHash ==
    /\ InitCache
    /\ disk = [k \in {} |-> CorruptFile]
    /\ config = DefaultConfig
    /\ InitBuilder

\* calculate_file_hash of the file as it is now, kept by w with the version
\* it was computed from.
HashFile(w, p) ==
    /\ At(w, "idle")
    /\ calculate_file_hash(files, p).ok
    /\ loc' = [loc EXCEPT ![w] = [NoLoc EXCEPT !.path = p,
                                     !.hash = calculate_file_hash(files, p).hash,
                                     !.content = files[p]]]
    /\ UNCHANGED <<files, now, disk, documents, file_hashes, hit_count, miss_count,
                   rlocks, pc, last, last_insert, ncalls, nenv, evict_log, bvars>>

\* The file rewritten or touched: any content, any modification time.
ChangeFile(p, v) ==
    /\ EnvStep
    /\ files' = [files EXCEPT ![p] = v]
    /\ UNCHANGED <<now, disk, documents, file_hashes, hit_count, miss_count,
                   rlocks, pc, loc, last_insert, ncalls, evict_log, bvars>>

NextHash ==
    \/ \E w \in Workers, p \in Paths : HashFile(w, p)
    \/ \E p \in Paths, v \in Versions : ChangeFile(p, v)

SpecHash == InitHash /\ [][NextHash]_vars

\* ------------------------------------------------------------- properties

\* What load_cache_file keeps: a parseable file whose entry is not expired,
\* whose document's source file exists and has the persisted fingerprint.
Loadable(content) ==
    /\ content.kind = "json"
    /\ ~is_expired(content.entry.cached_at, now)
    /\ files[content.entry.document.source_path].exists
    /\ Fingerprint(files[content.entry.document.source_path]) = content.entry.hash

\* The same test on the file the entry was stored for.
StoredSourceUnchanged(content) ==
    /\ content.kind = "json"
    /\ ~is_expired(content.entry.cached_at, now)
    /\ files[content.stored_as].exists
    /\ Fingerprint(files[content.stored_as]) = content.entry.hash

\* C1: a get_document that follows at once a successful store_document of
\* the same path returns the stored document, counts one hit and no miss.
C1_StoreThenGetHits ==
    (last.op = "get" /\ last.prev_op = "store" /\ last.prev_ret = "ok"
        /\ last.prev_path = last.path)
    => /\ last.ret = "hit"
       /\ last.doc = last.prev_doc
       /\ hit_count = last.hit0 + 1
       /\ miss_count = last.miss0

\* C2: a get_document that finds an entry whose stored fingerprint differs
\* from the file's current one is never a hit: it reports a miss.
C2_StaleIsMiss ==
    (last.op = "get" /\ last.present /\ ~last.match) => last.ret = "miss"

\* C3: when a store_document call has returned, the sizes of the entries in
\* memory sum to no more than the budget.
C3_WithinBudget ==
    last.op = "store" => size_bytes_total(documents) <= Budget

\* C4: a get_document call that has returned has added one to exactly one
\* of the two counters.
C4_ExactlyOneCounter ==
    (last.op = "get" /\ last.ret # "blocked")
    => \/ hit_count = last.hit0 + 1 /\ miss_count = last.miss0
       \/ hit_count = last.hit0 /\ miss_count = last.miss0 + 1

\* C5: a get_document that finds an expired entry reports a miss and leaves
\* the path without an entry.
C5_ExpiredIsMissAndRemoved ==
    (last.op = "get" /\ last.present /\ last.expired)
    => (last.ret = "miss" /\ last.path \notin DOMAIN documents)

\* C6: a BuildCache constructed over the directory holds exactly the
\* persisted entries that are not expired and whose source file exists with
\* the persisted fingerprint, each under the path it was stored with.
C6_RoundTrip ==
    last.op = "new"
    => /\ \A k \in DOMAIN disk :
            StoredSourceUnchanged(disk[k])
            => /\ disk[k].stored_as \in DOMAIN documents
               /\ documents[disk[k].stored_as] = disk[k].entry
       /\ \A q \in DOMAIN documents :
            \E k \in DOMAIN disk :
               /\ StoredSourceUnchanged(disk[k])
               /\ disk[k].stored_as = q
               /\ documents[q] = disk[k].entry

\* C7: constructing a BuildCache succeeds whatever the directory holds, and
\* every loadable persisted entry is in the new cache under its document's
\* source path, corrupt and torn files notwithstanding.
C7_CorruptFileSkipped ==
    last.op = "new"
    => /\ last.ret = "ok"
       /\ \A k \in DOMAIN disk :
            Loadable(disk[k])
            => /\ disk[k].entry.document.source_path \in DOMAIN documents
               /\ \E j \in DOMAIN disk :
                    /\ Loadable(disk[j])
                    /\ documents[disk[k].entry.document.source_path] = disk[j].entry

C7_Witness ==
    /\ last.op = "new"
    /\ last.ret = "ok"
    /\ \E k \in DOMAIN disk : disk[k].kind = "corrupt"
    /\ \E k \in DOMAIN disk :
         /\ Loadable(disk[k])
         /\ disk[k].entry.document.source_path \in DOMAIN documents

\* C8: after invalidate(path) the path has no entry and no persisted file,
\* the next get_document of it is no hit, and a BuildCache constructed next
\* over the directory does not hold the path; after clear() nothing is held
\* in memory or on disk.
C8_InvalidateRemoves ==
    /\ last.op = "invalidate"
       => /\ last.path \notin DOMAIN documents
          /\ get_cache_file_path(last.path) \notin DOMAIN disk
    /\ (last.op = "get" /\ last.prev_op = "invalidate" /\ last.prev_path = last.path)
       => last.ret \in {"miss", "err_io"}
    /\ (last.op = "new" /\ last.prev_op = "invalidate")
       => last.prev_path \notin DOMAIN documents
    /\ last.op = "clear" => (DOMAIN documents = {} /\ DOMAIN disk = {})
    /\ (last.op = "new" /\ last.prev_op = "clear") => DOMAIN documents = {}

AllReturned == \A w \in Workers : pc[w] = "idle"

C10_NoPartialFile ==
    \A k \in DOMAIN disk : disk[k].kind # "partial"

\* C19: every get_document call returns a hit, a miss or an I/O error; none
\* waits for a lock that its own entry reference holds.
C19_GetDocumentReturns ==
    /\ pc[Main] # "blocked"
    /\ last.op = "get" => last.ret \in {"hit", "miss", "err_io"}

\* The bytes freed by the first n removals of an eviction.
RECURSIVE FreedBy(_, _, _)
FreedBy(docs, removed, n) ==
    IF n = 0 THEN 0
    ELSE docs[removed[n]].size_bytes + FreedBy(docs, removed, n - 1)

\* C20: an eviction removes entries in ascending order of access_count and
\* stops as soon as the space freed reaches the size of the incoming entry;
\* no entry goes while one with a smaller access_count stays, and among
\* entries of equal access_count none goes while one stored earlier stays,
\* so the set removed does not depend on the order the map iterates in.
C20_EvictionOrder ==
    (evict_log.op = "store" /\ evict_log.removed # <<>>)
    => LET docs == evict_log.before
           removed == evict_log.removed
           gone == SeqRange(removed)
           stay == (DOMAIN docs) \ gone
           needed == estimate_document_size(evict_log.doc)
       IN /\ \A i \in 1..Len(removed) : FreedBy(docs, removed, i - 1) < needed
          /\ FreedBy(docs, removed, Len(removed)) >= needed \/ stay = {}
          /\ \A i, k \in 1..Len(removed) :
                i < k => docs[removed[i]].access_count <= docs[removed[k]].access_count
          /\ \A e \in gone, q \in stay :
                /\ docs[q].access_count >= docs[e].access_count
                /\ docs[q].access_count = docs[e].access_count
                   => docs[q].cached_at >= docs[e].cached_at
          /\ \A order \in Orders(DOMAIN docs) :
                SeqRange(evict_if_needed(docs, order, needed)) = gone

C17_OutputNotDiscovered ==
    stage # "Discovering"
    => \A f \in source_files : ~IsPrefix(config.output_dir, f)

\* The warnings pushed by the validation that has just run.
Emitted == SubSeq(warnings, prior.warnings0 + 1, Len(warnings))
Count(sq, x) == Cardinality({i \in DOMAIN sq : sq[i] = x})

\* C15: for every toctree reference r found in a produced document d there
\* is a missing-target warning against d naming r exactly when neither
\* r/index nor r is a produced document, and then exactly one; no other
\* missing-target warning is emitted.
C15_MissingTargetWarnings ==
    stage = "Finishing"
    => LET names == {doc_path_no_ext(d.source_path) : d \in processed_docs}
           Found(d) == {d.toctree[i] : i \in {k \in DOMAIN d.toctree :
                                                 d.toctree[k] \in TocEntries}}
       IN /\ \A d \in processed_docs : \A r \in Found(d) :
                Count(Emitted, MissingWarning(d.source_path, r))
                  = IF Append(r, "index") \notin names /\ r \notin names THEN 1 ELSE 0
          /\ \A i \in DOMAIN Emitted :
                Emitted[i].kind = "MissingToctreeRef"
                => \E d \in processed_docs :
                      /\ d.source_path = Emitted[i].file
                      /\ Emitted[i].reference \in Found(d)

C15_Witness ==
    /\ stage = "Finishing"
    /\ \E d \in processed_docs :
          /\ d.toctree = <<<<"missing-page">>, <<"missing-page">>>>
          /\ Count(Emitted, MissingWarning(d.source_path, <<"missing-page">>)) = 1
    /\ \E d \in processed_docs :
          /\ <<"guide">> \in SeqRange(d.toctree)
          /\ <<"guide", "index">> \in {doc_path_no_ext(e.source_path) : e \in processed_docs}
          /\ Count(Emitted, MissingWarning(d.source_path, <<"guide">>)) = 0

\* C16: there is exactly one orphaned-document warning, against the document
\* itself, for every produced document that is not the configured root
\* document and that no toctree reference reaches (the reference is its
\* name, its name followed by /index, or a directory above it), and none
\* for the root document or a document reached.
C16_OrphanWarnings ==
    stage = "Finishing"
    => LET refs == UNION {{d.toctree[i] : i \in {k \in DOMAIN d.toctree :
                                                   d.toctree[k] \in TocEntries}} :
                          d \in processed_docs}
           Reached(name) ==
               \E r \in refs : \/ r = name
                               \/ r = Append(name, "index")
                               \/ (Len(r) < Len(name) /\ SubSeq(name, 1, Len(r)) = r)
       IN \A d \in processed_docs :
             Count(Emitted, OrphanWarning(d.source_path))
               = IF doc_path_no_ext(d.source_path) # config.root_doc
                    /\ ~Reached(doc_path_no_ext(d.source_path))
                 THEN 1 ELSE 0

\* The stages of one invocation of build, in their order.
StageRank(st) ==
    CASE st = "Discovering" -> 1 [] st = "GraphBuilding" -> 2
      [] st = "Processing" -> 3 [] st = "Validating" -> 4
      [] st = "Finishing" -> 5 [] st = "Done" -> 6
      [] OTHER -> 0

\* Processing is over: no thread is at work, every file discovered has its
\* document and the documents collected are those.
ProcessingOver ==
    /\ \A w \in Workers : pc[w] = "idle"
    /\ DOMAIN job = source_files
    /\ \A f \in source_files : job[f].st = "ok"
    /\ processed_docs = {job[f].doc : f \in source_files}

\* C12: a build goes through Discovering, GraphBuilding, Processing,
\* Validating, Finishing and Done in that order, one stage at a time and
\* never back (it may fail out of a stage, and a new invocation starts from
\* idle); validation and what follows it run only when processing is over.
C12_StageOrder ==
    /\ [](stage \in {"Validating", "Finishing", "Done"} => ProcessingOver)
    /\ [][stage' # stage
            => \/ StageRank(stage) >= 1 /\ StageRank(stage') = StageRank(stage) + 1
               \/ stage = "idle" /\ stage' \in {"Discovering", "Failed"}
               \/ StageRank(stage) \in 1..5 /\ stage' = "Failed"
               \/ stage' = "idle"]_vars

C12_Witness ==
    /\ stage = "Done"
    /\ Cardinality(source_files) >= 2
    /\ prior.parsed = {f[1] : f \in source_files}

\* C13: once the processing of a file has failed, the build is in Processing
\* or has failed: it never validates or finishes, it makes no BuildStats and
\* the command does not exit with 0.
C13_FileFailureFailsBuild ==
    (\E f \in DOMAIN job : job[f].st = "err")
    => /\ stage \in {"Processing", "Failed"}
       /\ ~stats.made
       /\ exit_code \in {-1, 1}

C13_Witness ==
    /\ stage = "Failed"
    /\ exit_code = 1
    /\ \E f \in DOMAIN job : job[f].st = "err"
    /\ \E f \in DOMAIN job : job[f].st = "ok"

\* C14: in an incremental build that follows a completed incremental build
\* (the source files are the same, nothing changes them) no thread hangs, no
\* file is parsed again, and the BuildStats it makes report as many cache
\* hits as files processed.
C14_SecondBuildAllHits ==
    (config.incremental /\ prior.earlier /\ prior.builds >= 2)
    => /\ \A w \in Workers : pc[w] # "blocked"
       /\ prior.parsed = {}
       /\ stats.made => stats.cache_hits = stats.files_processed

\* C18: the command exits with 0 exactly when the build made its BuildStats,
\* no error came back to main, and not both fail-on-warning is set and there
\* are warnings; with fail-on-warning and warnings it has exited only after
\* the warnings were reported.
C18_ExitCode ==
    exit_code # -1
    => /\ exit_code = 0
          <=> (stats.made /\ ~prior.fatal
                 /\ ~(config.fail_on_warning /\ stats.warnings > 0))
       /\ (config.fail_on_warning /\ stats.warnings > 0 /\ ~prior.fatal)
          => prior.reported

C18_Witness ==
    /\ exit_code = 1
    /\ stats.made /\ ~prior.fatal
    /\ config.fail_on_warning /\ stats.warnings > 0
    /\ prior.reported


\* C26: a store_document call that returns an error leaves documents and
\* file_hashes as they were before the call: nothing inserted, overwritten or
\* evicted.
C26_FailedStoreLeavesCache ==
    [][(last'.op = "store" /\ ncalls' = ncalls + 1 /\ last'.ret = "err_io")
          => (documents' = documents /\ file_hashes' = file_hashes)]_vars

\* C25: an entry evicted by the latest store_document, and not the one that
\* store inserted, is not in the cache again, a new BuildCache over the same
\* directory included: no lookup can find it until it is stored again.
C25_EvictedStaysOut ==
    \A p \in Paths :
        (/\ evict_log.op = "store"
         /\ p \in SeqRange(evict_log.removed)
         /\ p # evict_log.path)
        => p \notin DOMAIN documents

\* C27: once all concurrent store_document calls (for distinct paths, each
\* document within the budget by itself) have returned, the estimated sizes
\* of the entries in memory sum to no more than the budget.
C27_BudgetUnderConcurrency ==
    (/\ AllReturned
     /\ \A p \in DOMAIN documents : documents[p].size_bytes <= Budget)
    => size_bytes_total(documents) <= Budget

\* C28: once all concurrent get_document calls have returned, hit_count is
\* the number of calls that returned a document and miss_count the number
\* of calls that returned the miss: no increment is lost.
C28_NoLostIncrement ==
    AllReturned => (hit_count = last.ret_docs /\ miss_count = last.ret_misses)

C28_Witness ==
    /\ AllReturned
    /\ last.raced
    /\ last.ret_misses >= 2
    /\ miss_count = last.ret_misses

\* The fingerprints two workers hold are of two versions of one file.
TwoVersions(w, v) ==
    /\ loc[w].path # "" /\ loc[w].path = loc[v].path
    /\ loc[w].content # loc[v].content

\* C29: two versions of a file that differ in content or in modification
\* time have different fingerprints.
C29_FingerprintChanges ==
    \A w, v \in Workers : TwoVersions(w, v) => loc[w].hash # loc[v].hash

\* C29 as it holds: two versions that differ in content, or in modification
\* time by a second or more with both times at or after the epoch, have
\* different fingerprints.
C29_FingerprintChangesPerSecond ==
    \A w, v \in Workers :
        (/\ TwoVersions(w, v)
         /\ \/ loc[w].content.content # loc[v].content.content
            \/ /\ loc[w].content.mtime >= 0
               /\ loc[v].content.mtime >= 0
               /\ loc[w].content.mtime - loc[v].content.mtime >= MsPerSec)
        => loc[w].hash # loc[v].hash

C29_Witness ==
    \E w, v \in Workers :
        /\ TwoVersions(w, v)
        /\ loc[w].content.content = loc[v].content.content
        /\ loc[v].content.mtime >= 0
        /\ loc[w].content.mtime - loc[v].content.mtime >= MsPerSec
        /\ loc[w].hash # loc[v].hash

\* C21: with incremental builds, a file's document is the cached one only
\* when the lookup hit and the cached source_mtime is not older than the
\* file; any other document was parsed in this invocation and is the one
\* stored in the cache; and a thread whose lookup found no such entry goes
\* on to parse the file (it does not hang).
C21_CachedOnlyIfCurrent ==
    /\ \A f \in DOMAIN job :
          (config.incremental /\ job[f].st = "ok")
          => \/ f[Len(f)] \in prior.served
             \/ /\ f[Len(f)] \in prior.parsed
                /\ f[Len(f)] \in DOMAIN documents
                /\ documents[f[Len(f)]].document = job[f].doc
    /\ \A w \in Workers :
          (/\ loc[w].content.kind = "lookup"
           /\ ~(loc[w].content.fresh /\ loc[w].content.recent))
          => pc[w] # "blocked"

C24_WarningsOfThisBuild ==
    (stats.made /\ prior.prev.made /\ ~prior.edited)
    => stats.warnings = prior.prev.warnings

\* C30: without incremental mode no step of a build invocation changes the
\* entries in memory, the counters or the persisted cache files.
C30_NonIncrementalLeavesCache ==
    [][(~config.incremental /\ stage' # "idle")
          => /\ documents' = documents
             /\ file_hashes' = file_hashes
             /\ hit_count' = hit_count
             /\ miss_count' = miss_count
             /\ disk' = disk]_vars

C30_Witness ==
    /\ stage = "Done" /\ stats.made
    /\ ~config.incremental
    /\ stats.files_processed >= 1
    /\ DOMAIN documents # {}
    /\ DOMAIN disk # {}

====
